---- MODULE Spec2Model ----
(***************************************************************************)
(* Model of src/plugin/library.rs: the PluginLibrary life cycle            *)
(* (load_with / Drop), the factory dispatch (factory_exists,               *)
(* create_plugin, preset_discovery_factory) and the metadata extraction    *)
(* (metadata, PluginMetadata::from_descriptor).                            *)
(*                                                                         *)
(* The loaded module is untrusted native code: every answer it gives       *)
(* (init's result, the pointer returned by get_factory, the plugin count,  *)
(* the descriptors) is a nondeterministic choice made when the call        *)
(* happens, and is recorded in `ret.calls` next to the operation's result. *)
(*                                                                         *)
(* Encodings: a byte string is a sequence of byte values; a nullable       *)
(* pointer or a Rust Option is <<>> (null / None) or <<v>> (Some(v)).      *)
(***************************************************************************)
EXTENDS Integers, Sequences, FiniteSets

\* ---- bounds of the model ----
MaxLibs == 1
MaxCalls == 2
MaxDerived == 1
MaxPlugins == 2

VARIABLES target_os, library, plib, trace, plugins, factories, ret

vars == <<target_os, library, plib, trace, plugins, factories, ret>>

Libs == 1..MaxLibs

\* ---- Option / Result encodings ----
None == <<>>

Some(v) == <<v>>

Ok(v) == [ok |-> TRUE, val |-> v]

Err(e) == [ok |-> FALSE, err |-> e]

\* ---- byte strings ----
\* a string is the sequence of its bytes: 0 is the NUL byte, 47 is '/', 255 is a
\* byte that no UTF-8 text contains
\* variant: the bytes are taken as they are
CString_new_unchecked(bytes) == Ok(bytes)

\* CString::new: a byte string with an interior NUL byte is rejected
CString_new(bytes) ==
    IF \E i \in 1..Len(bytes) : bytes[i] = 0
    THEN Err("null bytes") ELSE Ok(bytes)

\* OsStr::to_str / CStr::to_str: only valid UTF-8 converts (bytes below 128
\* are the valid ones of the alphabet used here, 255 never is)
to_str(bytes) ==
    IF \A i \in 1..Len(bytes) : bytes[i] < 128
    THEN Some(bytes) ELSE None

\* ---- paths: a root flag and a sequence of components ----
MkPath(root, comps) == [root |-> root, comps |-> comps]

\* variant: the path is used as the caller gave it
join_bare(base, p) == p

\* Path::join: joining an absolute path replaces the base
join(base, p) ==
    IF p.root THEN p ELSE MkPath(base.root, base.comps \o p.comps)

RECURSIVE JoinComps(_)
JoinComps(comps) ==
    IF comps = <<>> THEN <<>>
    ELSE IF Len(comps) = 1 THEN comps[1]
    ELSE comps[1] \o <<47>> \o JoinComps(Tail(comps))

as_os_str(p) == (IF p.root THEN <<47>> ELSE <<>>) \o JoinComps(p.comps)

\* std::env::current_dir().unwrap_or_else(|_| PathBuf::from("."))
CurrentDirs == { MkPath(TRUE, << <<99>> >>), MkPath(FALSE, << <<46>> >>) }

UserPaths ==
    { MkPath(FALSE, << <<97>> >>),
      MkPath(TRUE, << <<98>> >>),
      MkPath(FALSE, << <<97, 255>> >>),
      MkPath(TRUE, << <<98, 0, 97>> >>) }

\* what the dynamic loader finds at the path it is given
LoadOutcomes == {"missing", "invalid", "nosymbol", "nullsymbol", "module"}

\* what opening the bundle gives on macOS
BundleOutcomes == {"no_cfurl", "no_bundle", "no_executable", "bad_executable_path", "ok"}

BundleExecutable(p) == MkPath(p.root, p.comps \o << <<101>> >>)

NoRet == [op |-> "none"]

NoLibrary == [state |-> "unopened", entry |-> "absent"]

NoPluginLibrary == [state |-> "none", plugin_path |-> MkPath(FALSE, <<>>)]

Init ==
    /\ target_os \in {"linux", "macos"}
    /\ library = [l \in Libs |-> NoLibrary]
    /\ plib = [l \in Libs |-> NoPluginLibrary]
    /\ trace = [l \in Libs |-> <<>>]
    /\ plugins = [l \in Libs |-> 0]
    /\ factories = [l \in Libs |-> 0]
    /\ ret = NoRet

\* variant: the symbol's value is not tested for null
get_clap_entry_point_no_null_check(lib) ==
    IF lib.entry = "absent" THEN Err("The library does not expose a 'clap_entry' symbol")
    ELSE Ok("clap_entry")

\* ---- get_clap_entry_point: looked up in the module handle on every use ----
get_clap_entry_point(lib) ==
    IF lib.entry = "absent" THEN Err("The library does not expose a 'clap_entry' symbol")
    ELSE IF lib.entry = "null" THEN Err("'clap_entry' is a null pointer.")
    ELSE Ok("clap_entry")

\* the message of the `expect` on the lookup in the operations of a PluginLibrary
NoEntryPoint == "A Plugin was constructed for a plugin with no entry point"

\* the symbol the opened module exports
EntryOf(outcome) ==
    IF outcome = "nosymbol" THEN "absent"
    ELSE IF outcome = "nullsymbol" THEN "null"
    ELSE "ok"

\* the events of `trace`: "dlopen" and "dlclose" (the module is loaded and
\* unloaded), "dlsym" (the entry point is looked up) and the calls of the entry
\* point, "init_true" / "init_false" (init and its answer), "get_factory", "deinit"
InitEvent(initres) == IF initres THEN "init_true" ELSE "init_false"

\* ---- PluginLibrary::load: the loader opens the path or reports an error ----
\* variant: the loader's error is ignored
Opened_always(found) == TRUE

Opened(found) == found \in {"nosymbol", "nullsymbol", "module"}

\* variant: the answer of init is ignored
InitFailed_never(initres) == FALSE

\* variant: the test of init's answer is inverted
InitFailed_inverted(initres) == initres

\* `if !init(path) { bail!(..) }`
InitFailed(initres) == ~initres

\* ---- PluginLibrary::load_with ----
\* The steps of one load attempt, as the sequence of loader and entry-point
\* events it produces and its result.  `found` is what the loader finds,
\* `bundle` what opening the bundle gives (macOS), `initres` what init answers.
LoadSteps(userpath, cwd, os, bundle, found, initres) ==
    LET path == join(cwd, userpath)
        str == to_str(as_os_str(path))
        cstring == IF str = None THEN Err("none") ELSE CString_new(str[1])
        library_path == IF os = "macos" THEN BundleExecutable(path) ELSE path
        opened == Opened(found)
        lib == [state |-> "open", entry |-> EntryOf(found)]
        entry_point == get_clap_entry_point(lib)
        Early(e) == [res |-> Err(e), path |-> path, bundle |-> None, load_path |-> None,
                     found |-> None, entry |-> "absent", init_arg |-> None,
                     initres |-> None, events |-> <<>>]
        Bundle(e) == [Early(e) EXCEPT !.bundle = Some(bundle)]
        Loaded(r, ev) == [res |-> r, path |-> path,
                          bundle |-> IF os = "macos" THEN Some(bundle) ELSE None,
                          load_path |-> Some(library_path), found |-> Some(found),
                          entry |-> IF opened THEN lib.entry ELSE "absent",
                          init_arg |-> None, initres |-> None, events |-> ev]
        Inited(r, ev) == [Loaded(r, ev) EXCEPT !.init_arg = Some(cstring.val),
                                               !.initres = Some(initres)]
    IN  IF str = None THEN Early("Path contains invalid UTF-8")
        ELSE IF ~cstring.ok THEN Early("Path contains null bytes")
        ELSE IF os = "macos" /\ bundle = "no_cfurl"
        THEN Bundle("Could not create CFURL")
        ELSE IF os = "macos" /\ bundle = "no_bundle"
        THEN Bundle("Could not open bundle")
        ELSE IF os = "macos" /\ bundle = "no_executable"
        THEN Bundle("Could not get executable URL within bundle")
        ELSE IF os = "macos" /\ bundle = "bad_executable_path"
        THEN Bundle("Could not convert bundle executable path")
        ELSE IF ~opened
        THEN Loaded(Err("Could not load the plugin library"), <<>>)
        ELSE IF ~entry_point.ok
        THEN Loaded(entry_point, <<"dlopen", "dlsym", "dlclose">>)
        ELSE IF InitFailed(initres)
        THEN Inited(Err("'clap_plugin_entry::init' returned false."),
                    <<"dlopen", "dlsym", InitEvent(initres), "dlclose">>)
        ELSE Inited(Ok(path), <<"dlopen", "dlsym", InitEvent(initres)>>)

\* the slots that hold no live PluginLibrary; a load attempt uses the first one
FreeSlots == {l \in Libs : plib[l].state # "alive"}

FirstFree == CHOOSE l \in FreeSlots : \A k \in FreeSlots : l <= k

load_with(userpath, cwd, bundle, found, initres) ==
    /\ FreeSlots # {}
    /\ LET l == FirstFree
           s == LoadSteps(userpath, cwd, target_os, bundle, found, initres)
       IN  /\ trace' = [trace EXCEPT ![l] = s.events]
           /\ library' = [library EXCEPT ![l] =
                  [state |-> IF s.res.ok THEN "open"
                             ELSE IF s.events # <<>> THEN "closed" ELSE "unopened",
                   entry |-> s.entry]]
           /\ plib' = [plib EXCEPT ![l] =
                  IF s.res.ok THEN [state |-> "alive", plugin_path |-> s.res.val]
                  ELSE NoPluginLibrary]
           /\ ret' = [op |-> "load_with", lib |-> l, userpath |-> userpath, cwd |-> cwd,
                      found |-> s.found, initres |-> s.initres, bundle |-> s.bundle,
                      status |-> IF s.res.ok THEN "ok" ELSE "err",
                      res |-> s.res, load_path |-> s.load_path, init_arg |-> s.init_arg]
    /\ UNCHANGED <<target_os, plugins, factories>>

\* variant: the derived objects hold no borrow of the library
Borrowed_never(l) == FALSE

\* ---- derived objects borrow the PluginLibrary ----
Borrowed(l) == plugins[l] + factories[l] > 0

\* ---- impl Drop for PluginLibrary ----
\* drop() looks the entry point up and calls deinit; the `library` field is
\* dropped after the body of drop(), which unloads the module
\* variant: the module is unloaded before deinit is called
DropEvents_unload_first == <<"dlsym", "dlclose", "deinit">>

DropEvents == <<"dlsym", "deinit", "dlclose">>

drop(l) ==
    /\ plib[l].state = "alive"
    /\ ~Borrowed(l)
    /\ LET entry_point == get_clap_entry_point(library[l])
       IN  IF entry_point.ok
           THEN /\ trace' = [trace EXCEPT ![l] = @ \o DropEvents]
                /\ ret' = [op |-> "drop", lib |-> l, status |-> "ok"]
           ELSE /\ trace' = [trace EXCEPT ![l] = @ \o <<"dlsym", "dlclose">>]
                /\ ret' = [op |-> "drop", lib |-> l, status |-> "panic", msg |-> NoEntryPoint]
    /\ plib' = [plib EXCEPT ![l] = [state |-> "dropped", plugin_path |-> MkPath(FALSE, <<>>)]]
    /\ library' = [library EXCEPT ![l].state = "closed"]
    /\ UNCHANGED <<target_os, plugins, factories>>

\* ---- the factory identifiers passed to get_factory ----
CLAP_PLUGIN_FACTORY_ID == <<112>>

CLAP_PRESET_DISCOVERY_FACTORY_ID == <<100>>

\* the identifiers a caller asks for: the two known ones, one no module knows,
\* and one with an interior NUL byte
FactoryIds == { CLAP_PLUGIN_FACTORY_ID, CLAP_PRESET_DISCOVERY_FACTORY_ID, <<120>>, <<120, 0, 120>> }

\* what get_factory may answer: the null pointer (0) or the address of a factory
FactoryPointers == {0, 1}

\* the plugin identifiers a caller asks create_plugin for
PluginIds == { <<97>>, <<98>>, <<97, 0, 98>> }

\* one call into the module: the function, its argument and what it answered
Call(fn, arg, res) == [fn |-> fn, arg |-> arg, res |-> res]

\* variant: the entry point is initialized again before it is asked
QueryEvents_reinit == <<"dlsym", "init_true", "get_factory">>

\* variant: the entry point found at load time is kept and used
QueryEvents_cached == <<"get_factory">>

\* what metadata, factory_exists, create_plugin and preset_discovery_factory do
\* with the module: look the entry point up, then call its get_factory
QueryEvents == <<"dlsym", "get_factory">>

\* the number of operations that have looked the entry point up since the load
Queries(l) == Cardinality({i \in 1..Len(trace[l]) : trace[l][i] = "dlsym"}) - 1

Derived(l) == plugins[l] + factories[l]

CanQuery(l) == plib[l].state = "alive" /\ Queries(l) < MaxCalls

\* an operation whose entry-point lookup fails panics on its `expect`
Panics(op, l) ==
    /\ trace' = [trace EXCEPT ![l] = @ \o <<"dlsym">>]
    /\ ret' = [op |-> op, lib |-> l, status |-> "panic", calls |-> <<>>,
               msg |-> NoEntryPoint]
    /\ UNCHANGED <<target_os, library, plib, plugins, factories>>

\* ---- PluginLibrary::plugin_path ----
plugin_path(l) ==
    /\ plib[l].state = "alive"
    /\ ret' = [op |-> "plugin_path", lib |-> l, status |-> "ok", val |-> plib[l].plugin_path]
    /\ UNCHANGED <<target_os, library, plib, trace, plugins, factories>>

\* ---- PluginLibrary::factory_exists ----
\* the call made for the identifier, and the answer turned into a boolean
\* variant: the plugin factory is asked for, whatever the identifier
FactoryExistsCalls_plugin_factory(factory_id_cstring, ptr) ==
    << Call("get_factory", CLAP_PLUGIN_FACTORY_ID, ptr) >>

FactoryExistsCalls(factory_id_cstring, ptr) ==
    << Call("get_factory", factory_id_cstring, ptr) >>

factory_exists(l, factory_id, ptr) ==
    /\ CanQuery(l)
    /\ LET factory_id_cstring == CString_new(factory_id)
           entry_point == get_clap_entry_point(library[l])
           calls == FactoryExistsCalls(factory_id_cstring.val, ptr)
       IN  IF ~factory_id_cstring.ok
           THEN /\ ret' = [op |-> "factory_exists", lib |-> l, id |-> factory_id,
                           status |-> "panic", calls |-> <<>>,
                           msg |-> "The factory ID contained internal null bytes"]
                /\ UNCHANGED <<target_os, library, plib, trace, plugins, factories>>
           ELSE IF ~entry_point.ok
           THEN Panics("factory_exists", l)
           ELSE /\ trace' = [trace EXCEPT ![l] = @ \o QueryEvents]
                /\ ret' = [op |-> "factory_exists", lib |-> l, id |-> factory_id,
                           status |-> "ok", val |-> (calls[1].res # 0), calls |-> calls]
                /\ UNCHANGED <<target_os, library, plib, plugins, factories>>

\* ---- Plugin::new: the factory's create operation answers a handle or null ----
Plugin_new(l, id_cstring, handle) ==
    IF handle = 0
    THEN Err("The plugin factory returned a null pointer")
    ELSE Ok([library |-> l, handle |-> handle])

\* variant: the plugin factory pointer is used without the null check
CreatePluginResult_unchecked(l, id, ptr, handle) ==
    IF ~CString_new(id).ok THEN Err("Plugin ID contained null bytes")
    ELSE Plugin_new(l, CString_new(id).val, handle)

\* the result of create_plugin once the entry point is found: the null check of
\* the factory, then the conversion of the id, then Plugin::new
CreatePluginResult(l, id, ptr, handle) ==
    IF ptr = 0 THEN Err("The plugin does not support the factory.")
    ELSE IF ~CString_new(id).ok THEN Err("Plugin ID contained null bytes")
    ELSE Plugin_new(l, CString_new(id).val, handle)

\* ---- PluginLibrary::create_plugin ----
create_plugin(l, id, ptr, handle) ==
    /\ CanQuery(l)
    /\ LET entry_point == get_clap_entry_point(library[l])
           id_cstring == CString_new(id)
           get == Call("get_factory", CLAP_PLUGIN_FACTORY_ID, ptr)
           res == CreatePluginResult(l, id, ptr, handle)
           called == ptr # 0 /\ id_cstring.ok
       IN  IF ~entry_point.ok
           THEN Panics("create_plugin", l)
           ELSE /\ res.ok => Derived(l) < MaxDerived
                /\ trace' = [trace EXCEPT ![l] = @ \o QueryEvents]
                /\ plugins' = [plugins EXCEPT ![l] = IF res.ok THEN @ + 1 ELSE @]
                /\ ret' = [op |-> "create_plugin", lib |-> l, id |-> id,
                           status |-> IF res.ok THEN "ok" ELSE "err", res |-> res,
                           calls |-> IF called
                                     THEN << get, Call("create_plugin", id_cstring.val, handle) >>
                                     ELSE << get >>]
                /\ UNCHANGED <<target_os, library, plib, factories>>

\* ---- PluginLibrary::preset_discovery_factory ----
\* variant: a null factory pointer is reported as a successful "no factory"
PresetDiscoveryResult_absent(l, ptr) ==
    IF ptr # 0 THEN Ok([library |-> l, factory |-> ptr]) ELSE Ok(None)

\* `match NonNull::new(preset_discovery_factory)`
PresetDiscoveryResult(l, ptr) ==
    IF ptr # 0 THEN Ok([library |-> l, factory |-> ptr])
    ELSE Err("The plugin does not support the factory.")

preset_discovery_factory(l, ptr) ==
    /\ CanQuery(l)
    /\ LET entry_point == get_clap_entry_point(library[l])
           res == PresetDiscoveryResult(l, ptr)
       IN  IF ~entry_point.ok
           THEN Panics("preset_discovery_factory", l)
           ELSE /\ res.ok => Derived(l) < MaxDerived
                /\ trace' = [trace EXCEPT ![l] = @ \o QueryEvents]
                /\ factories' = [factories EXCEPT ![l] = IF res.ok THEN @ + 1 ELSE @]
                /\ ret' = [op |-> "preset_discovery_factory", lib |-> l,
                           status |-> IF res.ok THEN "ok" ELSE "err", res |-> res,
                           calls |-> << Call("get_factory", CLAP_PRESET_DISCOVERY_FACTORY_ID, ptr) >>]
                /\ UNCHANGED <<target_os, library, plib, plugins>>

\* ---- util: conversions of the C strings handed over by the module ----
\* a C string pointer is None (null) or Some(bytes)
cstr_ptr_to_string(ptr) ==
    IF ptr = None THEN Ok(None)
    ELSE IF to_str(ptr[1]) = None THEN Err("invalid UTF-8")
    ELSE Ok(Some(ptr[1]))

cstr_ptr_to_mandatory_string(ptr) ==
    LET s == cstr_ptr_to_string(ptr)
    IN  IF ~s.ok THEN s
        ELSE IF s.val = None THEN Err("The string is a null pointer.")
        ELSE IF s.val[1] = <<>> THEN Err("The string is empty.")
        ELSE Ok(s.val[1])

cstr_ptr_to_optional_string(ptr) ==
    LET s == cstr_ptr_to_string(ptr)
    IN  IF ~s.ok THEN s
        ELSE IF s.val = None THEN Ok(None)
        ELSE IF s.val[1] = <<>> THEN Ok(None)
        ELSE s

\* a features array pointer is None (null) or Some(sequence of C strings)
cstr_array_to_vec(ptr) ==
    IF ptr = None THEN Ok(None)
    ELSE IF \E i \in 1..Len(ptr[1]) : to_str(ptr[1][i]) = None THEN Err("invalid UTF-8")
    ELSE Ok(Some(ptr[1]))

\* variant: the vendor is converted without the normalisation of empty strings
from_descriptor_keep_empty(descriptor) ==
    LET id == cstr_ptr_to_mandatory_string(descriptor.id)
        name == cstr_ptr_to_mandatory_string(descriptor.name)
        version == cstr_ptr_to_optional_string(descriptor.version)
        vendor == cstr_ptr_to_string(descriptor.vendor)
        description == cstr_ptr_to_optional_string(descriptor.description)
        manual_url == cstr_ptr_to_optional_string(descriptor.manual_url)
        support_url == cstr_ptr_to_optional_string(descriptor.support_url)
        features == cstr_array_to_vec(descriptor.features)
    IN  IF ~id.ok THEN Err("Error parsing the plugin descriptor's 'id' field")
        ELSE IF ~name.ok THEN Err("Error parsing the plugin descriptor's 'name' field")
        ELSE IF ~version.ok THEN Err("Error parsing the plugin descriptor's 'version' field")
        ELSE IF ~vendor.ok THEN Err("Error parsing the plugin descriptor's 'vendor' field")
        ELSE IF ~description.ok
        THEN Err("Error parsing the plugin descriptor's 'description' field")
        ELSE IF ~manual_url.ok
        THEN Err("Error parsing the plugin descriptor's 'manual_url' field")
        ELSE IF ~support_url.ok
        THEN Err("Error parsing the plugin descriptor's 'support_url' field")
        ELSE IF ~features.ok THEN features
        ELSE IF features.val = None
        THEN Err("The plugin descriptor's 'features' array is malformed")
        ELSE Ok([id |-> id.val, name |-> name.val, version |-> version.val,
                 vendor |-> vendor.val, description |-> description.val,
                 manual_url |-> manual_url.val, support_url |-> support_url.val,
                 features |-> features.val[1]])

\* ---- PluginMetadata::from_descriptor ----
\* the fields are converted in the order of the struct literal; the first
\* failure is the result
from_descriptor(descriptor) ==
    LET id == cstr_ptr_to_mandatory_string(descriptor.id)
        name == cstr_ptr_to_mandatory_string(descriptor.name)
        version == cstr_ptr_to_optional_string(descriptor.version)
        vendor == cstr_ptr_to_optional_string(descriptor.vendor)
        description == cstr_ptr_to_optional_string(descriptor.description)
        manual_url == cstr_ptr_to_optional_string(descriptor.manual_url)
        support_url == cstr_ptr_to_optional_string(descriptor.support_url)
        features == cstr_array_to_vec(descriptor.features)
    IN  IF ~id.ok THEN Err("Error parsing the plugin descriptor's 'id' field")
        ELSE IF ~name.ok THEN Err("Error parsing the plugin descriptor's 'name' field")
        ELSE IF ~version.ok THEN Err("Error parsing the plugin descriptor's 'version' field")
        ELSE IF ~vendor.ok THEN Err("Error parsing the plugin descriptor's 'vendor' field")
        ELSE IF ~description.ok
        THEN Err("Error parsing the plugin descriptor's 'description' field")
        ELSE IF ~manual_url.ok
        THEN Err("Error parsing the plugin descriptor's 'manual_url' field")
        ELSE IF ~support_url.ok
        THEN Err("Error parsing the plugin descriptor's 'support_url' field")
        ELSE IF ~features.ok THEN features
        ELSE IF features.val = None
        THEN Err("The plugin descriptor's 'features' array is malformed")
        ELSE Ok([id |-> id.val, name |-> name.val, version |-> version.val,
                 vendor |-> vendor.val, description |-> description.val,
                 manual_url |-> manual_url.val, support_url |-> support_url.val,
                 features |-> features.val[1]])

\* ---- the descriptors a module serves ----
MkDescriptor(id, name, vendor, features) ==
    [id |-> id, name |-> name, version |-> None, vendor |-> vendor,
     description |-> Some(<<>>), manual_url |-> None, support_url |-> None,
     features |-> features]

\* plugin "a" with an empty vendor, plugin "b", a second entry for "a" and an
\* entry without an id
Descriptors ==
    { MkDescriptor(Some(<<97>>), Some(<<110>>), Some(<<>>), Some(<< <<102>> >>)),
      MkDescriptor(Some(<<98>>), Some(<<110>>), Some(<<118>>), Some(<<>>)),
      MkDescriptor(Some(<<97>>), Some(<<109>>), None, Some(<<>>)),
      MkDescriptor(None, Some(<<110>>), None, Some(<<>>)) }

\* get_plugin_descriptor answers a null pointer or a pointer to a descriptor
DescriptorPointers == {None} \cup {Some(d) : d \in Descriptors}

\* the answers of the plugin factory: table[i + 1] is what get_plugin_descriptor
\* answers for index i, and the length is what get_plugin_count answers
DescriptorTables ==
    UNION {[1..n -> DescriptorPointers] : n \in 0..MaxPlugins}

\* the clap_version record of the entry point
Versions == { [major |-> 1, minor |-> 2, revision |-> 0] }

\* the version triple metadata() builds from the entry point's clap_version
MetadataVersion(v) == <<v.major, v.minor, v.revision>>

\* variant: each converted plugin is put in front of the ones before it
RECURSIVE DescriptorLoop_prepend(_, _, _, _)
DescriptorLoop_prepend(table, i, fetched, plugins_) ==
    IF i >= Len(table)
    THEN [res |-> Ok(plugins_), fetched |-> fetched]
    ELSE LET descriptor == table[i + 1]
             now == Append(fetched, i)
         IN  IF descriptor = None
             THEN [res |-> Err("The plugin returned a null plugin descriptor"),
                   fetched |-> now]
             ELSE LET m == from_descriptor(descriptor[1])
                  IN  IF ~m.ok THEN [res |-> m, fetched |-> now]
                      ELSE DescriptorLoop_prepend(table, i + 1, now, <<m.val>> \o plugins_)

\* variant: a null descriptor is skipped and the enumeration goes on
RECURSIVE DescriptorLoop_skip_null(_, _, _, _)
DescriptorLoop_skip_null(table, i, fetched, plugins_) ==
    IF i >= Len(table)
    THEN [res |-> Ok(plugins_), fetched |-> fetched]
    ELSE LET descriptor == table[i + 1]
             now == Append(fetched, i)
         IN  IF descriptor = None
             THEN DescriptorLoop_skip_null(table, i + 1, now, plugins_)
             ELSE LET m == from_descriptor(descriptor[1])
                  IN  IF ~m.ok THEN [res |-> m, fetched |-> now]
                      ELSE DescriptorLoop_skip_null(table, i + 1, now, Append(plugins_, m.val))

\* the loop of metadata() from index i (0-based) on: the descriptors fetched so
\* far and the plugins converted so far
RECURSIVE DescriptorLoop(_, _, _, _)
DescriptorLoop(table, i, fetched, plugins_) ==
    IF i >= Len(table)
    THEN [res |-> Ok(plugins_), fetched |-> fetched]
    ELSE LET descriptor == table[i + 1]
             now == Append(fetched, i)
         IN  IF descriptor = None
             THEN [res |-> Err("The plugin returned a null plugin descriptor"),
                   fetched |-> now]
             ELSE LET m == from_descriptor(descriptor[1])
                  IN  IF ~m.ok THEN [res |-> m, fetched |-> now]
                      ELSE DescriptorLoop(table, i + 1, now, Append(plugins_, m.val))

\* variant: the sanity check is left out
UniquePluginIds_always(plugins_) == TRUE

\* the sanity check on the plugin ids: a HashSet of the ids has one element per plugin
UniquePluginIds(plugins_) ==
    Cardinality({plugins_[i].id : i \in 1..Len(plugins_)}) = Len(plugins_)

DuplicatePluginId == "The plugin's factory contains multiple entries for the same plugin ID."

\* variant: a plugin factory without plugins is an error
MetadataOf_nonempty(version, table) ==
    LET walk == DescriptorLoop(table, 0, <<>>, <<>>)
    IN  IF table = <<>>
        THEN [res |-> Err("The plugin factory contains no plugins."), fetched |-> <<>>]
        ELSE IF ~walk.res.ok THEN walk
        ELSE IF ~UniquePluginIds(walk.res.val)
        THEN [res |-> Err(DuplicatePluginId), fetched |-> walk.fetched]
        ELSE [res |-> Ok([version |-> MetadataVersion(version), plugins |-> walk.res.val]),
              fetched |-> walk.fetched]

\* the part of metadata() after the plugin factory was found
MetadataOf(version, table) ==
    LET walk == DescriptorLoop(table, 0, <<>>, <<>>)
    IN  IF ~walk.res.ok THEN walk
        ELSE IF ~UniquePluginIds(walk.res.val)
        THEN [res |-> Err(DuplicatePluginId),
              fetched |-> walk.fetched]
        ELSE [res |-> Ok([version |-> MetadataVersion(version), plugins |-> walk.res.val]),
              fetched |-> walk.fetched]

\* ---- PluginLibrary::metadata ----
metadata(l, ptr, version, table) ==
    /\ CanQuery(l)
    /\ LET entry_point == get_clap_entry_point(library[l])
           m == MetadataOf(version, table)
       IN  IF ~entry_point.ok
           THEN Panics("metadata", l)
           ELSE /\ trace' = [trace EXCEPT ![l] = @ \o QueryEvents]
                /\ ret' = IF ptr = 0
                          THEN [op |-> "metadata", lib |-> l, status |-> "err",
                                res |-> Err("The plugin does not support the factory."),
                                calls |-> << Call("get_factory", CLAP_PLUGIN_FACTORY_ID, ptr) >>,
                                entry_version |-> None, table |-> None, fetched |-> <<>>]
                          ELSE [op |-> "metadata", lib |-> l,
                                status |-> IF m.res.ok THEN "ok" ELSE "err",
                                res |-> m.res,
                                calls |-> << Call("get_factory", CLAP_PLUGIN_FACTORY_ID, ptr) >>,
                                entry_version |-> Some(version), table |-> Some(table),
                                fetched |-> m.fetched]
                /\ UNCHANGED <<target_os, library, plib, plugins, factories>>

\* ---- the derived objects are released by their owner ----
drop_plugin(l) ==
    /\ plugins[l] > 0
    /\ plugins' = [plugins EXCEPT ![l] = @ - 1]
    /\ ret' = [op |-> "drop_plugin", lib |-> l, status |-> "ok"]
    /\ UNCHANGED <<target_os, library, plib, trace, factories>>

drop_preset_discovery_factory(l) ==
    /\ factories[l] > 0
    /\ factories' = [factories EXCEPT ![l] = @ - 1]
    /\ ret' = [op |-> "drop_preset_discovery_factory", lib |-> l, status |-> "ok"]
    /\ UNCHANGED <<target_os, library, plib, trace, plugins>>

\* what the environment answers to one load attempt: the bundle, what the loader
\* finds and what init returns (only the answers that are asked for vary)
LoadAnswers ==
    {[bundle |-> b, found |-> "module", initres |-> TRUE] : b \in BundleOutcomes}
    \cup {[bundle |-> "ok", found |-> f, initres |-> TRUE] : f \in LoadOutcomes}
    \cup {[bundle |-> "ok", found |-> "module", initres |-> FALSE]}

\* what the module answers to one metadata(): no plugin factory, or a plugin
\* factory with its version and descriptors
MetadataAnswers ==
    {[ptr |-> 0, version |-> [major |-> 0, minor |-> 0, revision |-> 0], table |-> <<>>]}
    \cup {[ptr |-> 1, version |-> v, table |-> t] : v \in Versions, t \in DescriptorTables}

\* one load attempt: the path, the current directory and the answers; a path
\* that is rejected before the loader is asked meets no answers
PlainText(p) ==
    \A c \in 1..Len(p.comps) : \A k \in 1..Len(p.comps[c]) : p.comps[c][k] \in 1..127

LoadInputs ==
    {i \in [userpath : UserPaths, cwd : CurrentDirs, answers : LoadAnswers] :
        \/ PlainText(i.userpath)
        \/ i.answers = [bundle |-> "ok", found |-> "module", initres |-> TRUE]}

Next ==
    \/ \E i \in LoadInputs :
          load_with(i.userpath, i.cwd, i.answers.bundle, i.answers.found, i.answers.initres)
    \/ \E l \in Libs : plugin_path(l)
    \/ \E l \in Libs, a \in MetadataAnswers : metadata(l, a.ptr, a.version, a.table)
    \/ \E l \in Libs, factory_id \in FactoryIds, ptr \in FactoryPointers :
          factory_exists(l, factory_id, ptr)
    \/ \E l \in Libs, id \in PluginIds, ptr \in FactoryPointers, handle \in {0, 1} :
          create_plugin(l, id, ptr, handle)
    \/ \E l \in Libs, ptr \in FactoryPointers : preset_discovery_factory(l, ptr)
    \/ \E l \in Libs : drop_plugin(l)
    \/ \E l \in Libs : drop_preset_discovery_factory(l)
    \/ \E l \in Libs : drop(l)

Spec == Init /\ [][Next]_vars

\* ---- the conversion of one descriptor, over all shapes of its fields ----
\* a null pointer, an empty string, a text, and bytes that are not UTF-8
CStrPointers == { None, Some(<<>>), Some(<<97>>), Some(<<255>>) }

\* a null array, an empty array, one feature, one feature that is not UTF-8
FeaturePointers == { None, Some(<<>>), Some(<< <<102>> >>), Some(<< <<255>> >>) }

AllDescriptors ==
    [id : CStrPointers, name : CStrPointers, version : CStrPointers,
     vendor : CStrPointers, description : CStrPointers, manual_url : CStrPointers,
     support_url : CStrPointers, features : FeaturePointers]

InitDescriptor ==
    /\ target_os = "linux"
    /\ library = [l \in Libs |-> NoLibrary]
    /\ plib = [l \in Libs |-> NoPluginLibrary]
    /\ trace = [l \in Libs |-> <<>>]
    /\ plugins = [l \in Libs |-> 0]
    /\ factories = [l \in Libs |-> 0]
    /\ ret \in {[op |-> "descriptor", descriptor |-> d] : d \in AllDescriptors}

ConvertDescriptor ==
    /\ ret.op = "descriptor"
    /\ ret' = [op |-> "from_descriptor", descriptor |-> ret.descriptor,
               res |-> from_descriptor(ret.descriptor)]
    /\ UNCHANGED <<target_os, library, plib, trace, plugins, factories>>

NextDescriptor == ConvertDescriptor

SpecDescriptor == InitDescriptor /\ [][NextDescriptor]_vars

\* ---- PluginLibraryMetadata::clap_version, over all version triples ----
MaxVersion == 3

\* variant: major and minor change places
clap_version_swapped(version) ==
    [major |-> version[2], minor |-> version[1], revision |-> version[3]]

\* the wire-level clap_version record of a version triple
clap_version(version) ==
    [major |-> version[1], minor |-> version[2], revision |-> version[3]]

AllVersions == [major : 0..MaxVersion, minor : 0..MaxVersion, revision : 0..MaxVersion]

InitVersion ==
    /\ target_os = "linux"
    /\ library = [l \in Libs |-> NoLibrary]
    /\ plib = [l \in Libs |-> NoPluginLibrary]
    /\ trace = [l \in Libs |-> <<>>]
    /\ plugins = [l \in Libs |-> 0]
    /\ factories = [l \in Libs |-> 0]
    /\ ret \in {[op |-> "entry_version", entry_version |-> v] : v \in AllVersions}

\* metadata() stores the version of the entry point
StoreVersion ==
    /\ ret.op = "entry_version"
    /\ ret' = [op |-> "metadata_version", entry_version |-> ret.entry_version,
               version |-> MetadataVersion(ret.entry_version)]
    /\ UNCHANGED <<target_os, library, plib, trace, plugins, factories>>

\* PluginLibraryMetadata::clap_version() on the stored triple
ConvertVersion ==
    /\ ret.op = "metadata_version"
    /\ ret' = [op |-> "clap_version", entry_version |-> ret.entry_version,
               version |-> ret.version, wire |-> clap_version(ret.version)]
    /\ UNCHANGED <<target_os, library, plib, trace, plugins, factories>>

NextVersion == StoreVersion \/ ConvertVersion

SpecVersion == InitVersion /\ [][NextVersion]_vars

\* ======================================================================
\* Properties
\* ======================================================================
Count(t, e) == Cardinality({i \in 1..Len(t) : t[i] = e})

Before(t, i, e) == \E j \in 1..(i - 1) : t[j] = e

\* C1: on every module instance init is called at most once, exactly once
\* (answering true) when a PluginLibrary was made of it, and every get_factory
\* and deinit call comes after init answered true and before any deinit.
C1_InitOnceAndFirst ==
    \A l \in Libs :
        LET t == trace[l]
        IN  /\ Count(t, "init_true") + Count(t, "init_false") <= 1
            /\ plib[l].state \in {"alive", "dropped"} => Count(t, "init_true") = 1
            /\ \A i \in 1..Len(t) :
                  t[i] \in {"get_factory", "deinit"} =>
                      /\ Before(t, i, "init_true")
                      /\ ~Before(t, i, "deinit")

\* a library that was loaded, queried and dropped
C1_Witness ==
    \E l \in Libs :
        /\ plib[l].state = "dropped"
        /\ Count(trace[l], "get_factory") >= 1
        /\ Count(trace[l], "deinit") = 1

\* C2: while the PluginLibrary is alive deinit has not been called and the
\* module is loaded; once it is dropped deinit has been called exactly once and
\* the module was unloaded once, after that deinit call.
C2_DeinitOnceAtDrop ==
    \A l \in Libs :
        LET t == trace[l]
        IN  /\ plib[l].state = "alive" =>
                  /\ Count(t, "deinit") = 0
                  /\ Count(t, "dlclose") = 0
                  /\ library[l].state = "open"
            /\ plib[l].state = "dropped" =>
                  /\ Count(t, "deinit") = 1
                  /\ Count(t, "dlclose") = 1
                  /\ library[l].state = "closed"
                  /\ \A i \in 1..Len(t) : t[i] = "dlclose" => Before(t, i, "deinit")
            /\ plib[l].state = "none" => Count(t, "deinit") = 0

\* the drop of a PluginLibrary has just run
C2_Witness ==
    /\ ret.op = "drop"
    /\ ret.status = "ok"
    /\ plib[ret.lib].state = "dropped"

\* C3: when init answers false the load returns an error, no PluginLibrary
\* exists for the module, the module is unloaded right after the init call and
\* deinit is not called on it.
C3_InitFalseFailsLoad ==
    /\ \A l \in Libs :
          Count(trace[l], "init_false") > 0 =>
              /\ plib[l].state = "none"
              /\ library[l].state = "closed"
              /\ trace[l] = <<"dlopen", "dlsym", "init_false", "dlclose">>
    /\ (ret.op = "load_with" /\ ret.initres = Some(FALSE)) =>
          /\ ret.status = "err"
          /\ Count(trace[ret.lib], "init_false") = 1

\* a load whose init answered false
C3_Witness ==
    /\ ret.op = "load_with"
    /\ ret.initres = Some(FALSE)
    /\ ret.status = "err"

\* C4: deinit has run on a module only when no Plugin and no
\* PresetDiscoveryFactory derived from its PluginLibrary is alive.
C4_DeinitAfterDerived ==
    \A l \in Libs : Count(trace[l], "deinit") > 0 => Derived(l) = 0

\* a library that handed out factories or plugins has been dropped
C4_Witness ==
    /\ ret.op = "drop"
    /\ Count(trace[ret.lib], "deinit") = 1
    /\ Count(trace[ret.lib], "get_factory") = MaxCalls

\* C5: a load of a path where the loader finds no file or no valid module (or,
\* on macOS, no bundle with an executable) returns an error, makes no
\* PluginLibrary and calls neither init, get_factory nor deinit.
C5_BadPathFailsLoad ==
    (/\ ret.op = "load_with"
     /\ \/ ret.found \in {Some("missing"), Some("invalid")}
        \/ ret.bundle \in {Some(b) : b \in BundleOutcomes \ {"ok"}}) =>
        /\ ret.status = "err"
        /\ plib[ret.lib].state = "none"
        /\ library[ret.lib].state = "unopened"
        /\ trace[ret.lib] = <<>>

\* the loader was asked and found no file
C5_Witness ==
    /\ ret.op = "load_with"
    /\ ret.found = Some("missing")
    /\ ret.status = "err"

\* C6 as stated: for any factory ID, factory_exists returns, and returns true
\* exactly when get_factory answered a non-null pointer for that ID.
C6_FactoryExistsAnyId ==
    ret.op = "factory_exists" =>
        /\ ret.status = "ok"
        /\ Len(ret.calls) = 1
        /\ ret.calls[1] = Call("get_factory", ret.id, ret.calls[1].res)
        /\ ret.val = (ret.calls[1].res # 0)

\* C6 amended: for a factory ID without an interior NUL byte factory_exists
\* makes one get_factory call for that very ID and returns true exactly when the
\* answer is non-null; for an ID with an interior NUL byte it panics before any
\* call into the module.
C6_FactoryExistsValidId ==
    ret.op = "factory_exists" =>
        IF CString_new(ret.id).ok
        THEN /\ ret.status = "ok"
             /\ Len(ret.calls) = 1
             /\ ret.calls[1] = Call("get_factory", ret.id, ret.calls[1].res)
             /\ ret.val = (ret.calls[1].res # 0)
        ELSE /\ ret.status = "panic"
             /\ ret.calls = <<>>

\* an identifier other than the plugin factory's, which the module does not know
C6_Witness ==
    /\ ret.op = "factory_exists"
    /\ ret.id = <<120>>
    /\ ret.status = "ok"
    /\ ret.val = FALSE

NoFactory == ret.op \in {"metadata", "create_plugin", "preset_discovery_factory"}
             /\ ret.status # "panic"
             /\ ret.calls[1].res = 0

SharedId(table) ==
    \E i, j \in 1..Len(table) :
        /\ i < j
        /\ table[i] # None
        /\ table[j] # None
        /\ table[i][1].id = table[j][1].id

\* C8: when two descriptors share an id metadata() returns an error and no
\* metadata; when the ids are pairwise distinct it never fails with the
\* duplicate-id error.
C8_DuplicateIds ==
    (ret.op = "metadata" /\ ret.table # None) =>
        /\ SharedId(ret.table[1]) => (ret.status = "err" /\ ~ret.res.ok)
        /\ ~SharedId(ret.table[1]) => (ret.res.ok \/ ret.res.err # DuplicatePluginId)

\* the uniqueness check itself rejected a table
C8_Witness ==
    /\ ret.op = "metadata"
    /\ ret.table # None
    /\ SharedId(ret.table[1])
    /\ ~ret.res.ok
    /\ ret.res.err = DuplicatePluginId

OptionalFields == {"version", "vendor", "description", "manual_url", "support_url"}

WellFormedMetadata(m) ==
    /\ m.id # <<>>
    /\ m.name # <<>>
    /\ \A f \in OptionalFields : m[f] = None \/ (Len(m[f]) = 1 /\ m[f][1] # <<>>)

\* C9: in every PluginMetadata that from_descriptor produces (and so in every
\* entry of a successful metadata()), id and name are non-empty, every optional
\* field is absent or a non-empty string, and a null or empty C string in an
\* optional field of the descriptor gives an absent field.
C9_NoEmptyFields ==
    /\ (ret.op = "from_descriptor" /\ ret.res.ok) =>
          /\ WellFormedMetadata(ret.res.val)
          /\ \A f \in OptionalFields :
                ret.descriptor[f] \in {None, Some(<<>>)} => ret.res.val[f] = None
    /\ (ret.op = "metadata" /\ ret.res.ok) =>
          \A i \in 1..Len(ret.res.val.plugins) : WellFormedMetadata(ret.res.val.plugins[i])

\* a descriptor with an empty vendor string was converted, the vendor is absent
C9_Witness ==
    /\ ret.op = "from_descriptor"
    /\ ret.res.ok
    /\ ret.descriptor.vendor = Some(<<>>)
    /\ ret.descriptor.version = Some(<<97>>)
    /\ ret.res.val.vendor = None
    /\ ret.res.val.version = Some(<<97>>)

\* the descriptor at index i (0-based) is null or does not convert
BadEntry(table, i) ==
    \/ table[i + 1] = None
    \/ ~from_descriptor(table[i + 1][1]).ok

\* C10: when the descriptor at index i is the first that is null or fails to
\* convert, metadata() returns an error, and the indices it fetched are exactly
\* 0..i, in that order.
C10_AbortAtFirstBadEntry ==
    (ret.op = "metadata" /\ ret.table # None) =>
        \A i \in 0..(Len(ret.table[1]) - 1) :
            (BadEntry(ret.table[1], i) /\ \A k \in 0..(i - 1) : ~BadEntry(ret.table[1], k)) =>
                /\ ret.status = "err"
                /\ ~ret.res.ok
                /\ ret.fetched = [k \in 1..(i + 1) |-> k - 1]

\* a null descriptor followed by a good one
C10_Witness ==
    /\ ret.op = "metadata"
    /\ ret.table # None
    /\ Len(ret.table[1]) = 2
    /\ ret.table[1][1] = None
    /\ ret.table[1][2] # None
    /\ ret.fetched = <<0>>

\* C11: reading major, minor and revision back from the clap_version record
\* made of a stored version triple gives that triple, and the triple stored by
\* metadata() is the major, minor and revision of the entry point's version.
C11_VersionRoundTrip ==
    /\ ret.op = "clap_version" =>
          /\ <<ret.wire.major, ret.wire.minor, ret.wire.revision>> = ret.version
          /\ ret.wire = ret.entry_version
    /\ ret.op \in {"metadata_version", "clap_version"} =>
          /\ ret.version[1] = ret.entry_version.major
          /\ ret.version[2] = ret.entry_version.minor
          /\ ret.version[3] = ret.entry_version.revision
    /\ (ret.op = "metadata" /\ ret.res.ok) =>
          /\ ret.res.val.version[1] = ret.entry_version[1].major
          /\ ret.res.val.version[2] = ret.entry_version[1].minor
          /\ ret.res.val.version[3] = ret.entry_version[1].revision

\* a triple of three different numbers went to the wire-level record
C11_Witness ==
    /\ ret.op = "clap_version"
    /\ ret.version = <<1, 2, 3>>
    /\ ret.wire.major = 1
    /\ ret.wire.revision = 3

\* C12: create_plugin returns an error and no Plugin when get_factory answers
\* null for the plugin factory or when the factory's create operation answers
\* null; it returns a Plugin only after the create operation answered a
\* non-null handle, and that handle is the one the Plugin holds.
C12_CreatePluginFailures ==
    (ret.op = "create_plugin" /\ ret.status # "panic") =>
        /\ ret.calls[1].res = 0 => (ret.status = "err" /\ ~ret.res.ok /\ Len(ret.calls) = 1)
        /\ (Len(ret.calls) = 2 /\ ret.calls[2].res = 0) => (ret.status = "err" /\ ~ret.res.ok)
        /\ ret.status = "ok" =>
              /\ ret.res.ok
              /\ Len(ret.calls) = 2
              /\ ret.calls[1].res # 0
              /\ ret.calls[2] = Call("create_plugin", ret.id, ret.res.val.handle)
              /\ ret.calls[2].res # 0
              /\ plugins[ret.lib] >= 1

\* the factory was there and its create operation answered null
C12_Witness ==
    /\ ret.op = "create_plugin"
    /\ Len(ret.calls) = 2
    /\ ret.calls[1].res # 0
    /\ ret.calls[2].res = 0
    /\ ret.status = "err"
    /\ plugins[ret.lib] = 0

\* a string with an interior NUL byte or with bytes that are not UTF-8
BadText(bytes) == \E k \in 1..Len(bytes) : bytes[k] \notin 1..127

BadPath(p) == \E c \in 1..Len(p.comps) : BadText(p.comps[c])

\* C13 as stated: load_with, factory_exists and create_plugin answer a string
\* that is not valid text with an error, having made no call into the module.
C13_RejectedBeforeAnyCall ==
    /\ (ret.op = "load_with" /\ BadPath(ret.userpath)) =>
          /\ ret.status = "err"
          /\ ret.load_path = None
          /\ trace[ret.lib] = <<>>
    /\ (ret.op \in {"factory_exists", "create_plugin"} /\ BadText(ret.id)) =>
          /\ ret.status = "err"
          /\ ret.calls = <<>>

\* C13 amended: a string that is not valid text is rejected before the call
\* that would carry it.  load_with returns an error before the loader and the
\* module are reached; factory_exists panics before any call into the module;
\* create_plugin has already asked get_factory for the plugin factory and
\* returns an error (a missing factory is reported first) without calling the
\* factory's create operation.
C13_RejectedBeforeCarryingCall ==
    /\ (ret.op = "load_with" /\ BadPath(ret.userpath)) =>
          /\ ret.status = "err"
          /\ ret.load_path = None
          /\ ret.init_arg = None
          /\ trace[ret.lib] = <<>>
    /\ (ret.op = "factory_exists" /\ BadText(ret.id)) =>
          /\ ret.status = "panic"
          /\ ret.calls = <<>>
    /\ (ret.op = "create_plugin" /\ BadText(ret.id) /\ ret.status # "panic") =>
          /\ ret.status = "err"
          /\ ret.calls = << Call("get_factory", CLAP_PLUGIN_FACTORY_ID, ret.calls[1].res) >>
    /\ ret.op \in {"factory_exists", "create_plugin"} =>
          \A k \in 1..Len(ret.calls) : ~BadText(ret.calls[k].arg)

\* create_plugin found the plugin factory and then rejected the id
C13_Witness ==
    /\ ret.op = "create_plugin"
    /\ BadText(ret.id)
    /\ ret.status = "err"
    /\ Len(ret.calls) = 1
    /\ ret.calls[1].res # 0

QueryOps == {"metadata", "factory_exists", "create_plugin", "preset_discovery_factory"}

InitCalls(l) == Count(trace[l], "init_true") + Count(trace[l], "init_false")

\* C14: a step of metadata, factory_exists, create_plugin or
\* preset_discovery_factory, successful or not, adds no init and no deinit call
\* and leaves the PluginLibrary and its module as they were; so a live
\* PluginLibrary has seen init once and no deinit, and a dropped one init once
\* and deinit once.
C14_QueriesKeepInitialized ==
    /\ [](\A l \in Libs :
            /\ plib[l].state = "alive" =>
                  (InitCalls(l) = 1 /\ Count(trace[l], "init_true") = 1
                   /\ Count(trace[l], "deinit") = 0)
            /\ plib[l].state = "dropped" =>
                  (InitCalls(l) = 1 /\ Count(trace[l], "init_true") = 1
                   /\ Count(trace[l], "deinit") = 1))
    /\ [][ret'.op \in QueryOps =>
            /\ plib' = plib
            /\ library' = library
            /\ \A l \in Libs :
                  /\ Count(trace'[l], "init_true") = Count(trace[l], "init_true")
                  /\ Count(trace'[l], "init_false") = Count(trace[l], "init_false")
                  /\ Count(trace'[l], "deinit") = Count(trace[l], "deinit")
                  /\ Count(trace'[l], "dlclose") = Count(trace[l], "dlclose")]_vars

\* load, as many queries as the bound allows, then drop
C14_Witness ==
    /\ ret.op = "drop"
    /\ InitCalls(ret.lib) = 1
    /\ Count(trace[ret.lib], "deinit") = 1
    /\ Count(trace[ret.lib], "dlsym") = MaxCalls + 2

\* the user's path put under the current directory, or kept when it is absolute
AnchoredPath(userpath, cwd) ==
    IF userpath.root THEN userpath
    ELSE [root |-> cwd.root, comps |-> cwd.comps \o userpath.comps]

\* C15: the path of a load is the user's path when that is absolute and the
\* current directory followed by the user's path when it is relative, never a
\* bare file name; init is given that path (on macOS the loader is given the
\* executable inside the bundle, init still the bundle path), the PluginLibrary
\* keeps it, and plugin_path() returns it as long as the library lives.
C15_AnchoredPath ==
    /\ [](ret.op = "load_with" =>
            LET anchored == AnchoredPath(ret.userpath, ret.cwd)
            IN  /\ anchored.root \/ anchored.comps[1] = <<46>>
                /\ ret.init_arg # None => ret.init_arg[1] = as_os_str(anchored)
                /\ ret.load_path # None =>
                      IF target_os = "macos"
                      THEN /\ ret.load_path[1] # anchored
                           /\ ret.load_path[1].comps = anchored.comps \o << <<101>> >>
                      ELSE ret.load_path[1] = anchored
                /\ ret.status = "ok" =>
                      /\ plib[ret.lib].plugin_path = anchored
                      /\ ret.init_arg = Some(as_os_str(plib[ret.lib].plugin_path)))
    /\ [](ret.op = "plugin_path" => ret.val = plib[ret.lib].plugin_path)
    /\ [][\A l \in Libs :
            (plib[l].state = "alive" /\ plib'[l].state = "alive") =>
                plib'[l].plugin_path = plib[l].plugin_path]_vars

\* a relative path was loaded on macOS and asked back with plugin_path()
C15_Witness ==
    /\ ret.op = "plugin_path"
    /\ target_os = "macos"
    /\ ret.val = [root |-> TRUE, comps |-> << <<99>>, <<97>> >>]

\* C16: a successful metadata() fetched the descriptors of the indices
\* 0..count-1 in increasing order, each once, and its k-th plugin is the
\* conversion of the k-th descriptor; there are as many plugins as the count.
C16_OnePluginPerDescriptor ==
    (ret.op = "metadata" /\ ret.status = "ok") =>
        LET table == ret.table[1]
            ps == ret.res.val.plugins
        IN  /\ Len(ps) = Len(table)
            /\ ret.fetched = [k \in 1..Len(table) |-> k - 1]
            /\ \A k \in 1..Len(table) :
                  /\ table[k] # None
                  /\ from_descriptor(table[k][1]) = Ok(ps[k])

\* two different plugins came back in the order of their indices
C16_Witness ==
    /\ ret.op = "metadata"
    /\ ret.status = "ok"
    /\ Len(ret.res.val.plugins) = 2
    /\ ret.res.val.plugins[1].id = <<97>>
    /\ ret.res.val.plugins[2].id = <<98>>

\* C17: metadata() on a plugin factory that reports no plugins succeeds with
\* the version of the entry point and an empty plugins sequence, without
\* fetching a descriptor; without a plugin factory it is an error.
C17_ZeroPlugins ==
    ret.op = "metadata" =>
        /\ ret.table = Some(<<>>) =>
              /\ ret.status = "ok"
              /\ ret.res.ok
              /\ ret.res.val.plugins = <<>>
              /\ ret.res.val.version = <<ret.entry_version[1].major,
                                         ret.entry_version[1].minor,
                                         ret.entry_version[1].revision>>
              /\ ret.fetched = <<>>
        /\ (ret.status # "panic" /\ ret.calls[1].res = 0) =>
              (ret.status = "err" /\ ret.table = None)

\* a plugin factory with a count of zero
C17_Witness ==
    /\ ret.op = "metadata"
    /\ ret.table = Some(<<>>)
    /\ ret.calls[1].res # 0
    /\ ret.status = "ok"

\* C18: when the opened module has no clap_entry symbol, or the symbol is
\* null, the load returns an error after the lookup, the module is unloaded, no
\* PluginLibrary exists, and neither init nor deinit nor get_factory is called.
C18_MissingEntryPoint ==
    /\ (ret.op = "load_with" /\ ret.found \in {Some("nosymbol"), Some("nullsymbol")}) =>
          /\ ret.status = "err"
          /\ ret.init_arg = None
          /\ library[ret.lib].entry # "ok"
          /\ library[ret.lib].state = "closed"
    /\ \A l \in Libs :
          (library[l].state # "unopened" /\ library[l].entry # "ok") =>
              /\ plib[l].state = "none"
              /\ library[l].state = "closed"
              /\ trace[l] = <<"dlopen", "dlsym", "dlclose">>

\* a module whose clap_entry symbol is a null pointer was opened
C18_Witness ==
    /\ ret.op = "load_with"
    /\ ret.found = Some("nullsymbol")
    /\ ret.status = "err"
    /\ library[ret.lib].entry = "null"

\* C19: the module of every live PluginLibrary exports a non-null clap_entry,
\* every operation that calls the entry point (each query, and the drop) looks
\* it up once before, and no operation panics on the entry-point assertion.
C19_EntryPointAlwaysResolves ==
    /\ \A l \in Libs :
          /\ plib[l].state = "alive" => library[l].entry = "ok"
          /\ plib[l].state \in {"alive", "dropped"} =>
                Count(trace[l], "dlsym")
                    = 1 + Count(trace[l], "get_factory") + Count(trace[l], "deinit")
    /\ (ret.op \in QueryOps \cup {"drop"} /\ ret.status = "panic") => ret.msg # NoEntryPoint

\* a live library after as many look-ups as the bound allows
C19_Witness ==
    /\ ret.op = "metadata"
    /\ ret.status = "ok"
    /\ plib[ret.lib].state = "alive"
    /\ Count(trace[ret.lib], "dlsym") = MaxCalls + 1
====
